---- MODULE Spec2Model ----
(***************************************************************************)
(* Model of boto3_example.py: the coroutine go(), run by asyncio.run, and  *)
(* the object store it talks to through the aiobotocore client.            *)
(*                                                                         *)
(* go() is one task.  Every `await` of the source is a suspension point:   *)
(* a "Call" action issues the operation and suspends, the environment      *)
(* (the service, the connection) decides the outcome, and a "Return"       *)
(* action resumes go() with the response or with the raised exception.     *)
(* The two `async with` blocks are modelled by their __aenter__ and        *)
(* __aexit__ steps; an exception unwinds through the enclosing blocks.     *)
(***************************************************************************)
EXTENDS Naturals, Sequences, FiniteSets, TLC

VARIABLES
    pc,          \* position of go(): the statement it is at or suspended on
    client,      \* the `async with session.create_client(...)` scope
    stream,      \* the `async with resp['Body'] as stream` scope
    exc,         \* TRUE while an exception propagates out of go()
    calls,       \* every operation go() has issued, in order of issue
    status,      \* status[i]: where call i stands (see Statuses)
    awaited,     \* every await go() has suspended on, in order
    resp,        \* the local `resp`: the operation whose response it holds
    out,         \* what go() has printed
    store,       \* the objects of the service: a set of <<bucket, key>>
    otherWrites, \* number of writes by other parties of the service
    proc         \* the process: running, or how asyncio.run(go()) ended

vars == <<pc, client, stream, exc, calls, status, awaited, resp, out, store,
          otherWrites, proc>>

\* Writes by other clients of the same service that the model explores.
MaxOtherWrites == 2

---------------------------------------------------------------------------
\* Lines 10-13: the names go() addresses.
bucket == "dataintake"
filename == "dummy.bin"
folder == "aiobotocore"
key == folder \o "/" \o filename

\* Another key of the same bucket, written only by other parties.
otherKey == folder \o "/" \o "other.bin"
Keys == {key, otherKey}

\* Variant: DeleteObject is given the file name without its folder prefix.
RequestBareKey(op) ==
    [op |-> op, Bucket |-> bucket,
     Key |-> IF op = "DeleteObject" THEN filename ELSE key]

\* The keyword arguments every client call of go() passes.
Request(op) == [op |-> op, Bucket |-> bucket, Key |-> key]

\* The four S3 API operations, in the order they are written.
RemoteOps == <<"PutObject", "GetObjectAcl", "GetObject", "DeleteObject">>

\* sent:     issued, not yet handled by the service
\* applied:  handled by the service with success, response not yet taken
\* rejected: refused by the service (no effect), response not yet taken
\* hung:     no response will ever arrive
\* ok:       go() resumed with the response
\* failed:   go() resumed with an exception
Statuses == {"sent", "applied", "rejected", "hung", "ok", "failed"}
Outstanding == {i \in 1..Len(calls) : status[i] \in {"sent", "applied", "rejected", "hung"}}

Init ==
    /\ pc = "create_client"
    /\ client = "none"
    /\ stream = "none"
    /\ exc = FALSE
    /\ calls = <<>>
    /\ status = <<>>
    /\ awaited = <<>>
    /\ resp = "none"
    /\ out = <<>>
    /\ store \in {{}, {<<bucket, key>>}}
    /\ otherWrites = 0
    /\ proc = "running"

---------------------------------------------------------------------------
\* go()

\* Lines 15-22: __aenter__ of the client scope.  It either yields the client
\* or raises; in the latter case nothing was acquired and go() ends failed.
CreateClient ==
    /\ pc = "create_client"
    /\ awaited' = Append(awaited, "aenter_client")
    /\ \/ /\ client' = "open"
          /\ pc' = "put"
          /\ exc' = exc
       \/ /\ client' = client
          /\ pc' = "failed"
          /\ exc' = TRUE
    /\ UNCHANGED <<stream, calls, status, resp, out, store, otherWrites, proc>>

\* `await client.<op>(Bucket=bucket, Key=key, ...)`: issue the request and
\* suspend.
Call(op, at, waiting) ==
    /\ pc = at
    /\ calls' = Append(calls, Request(op))
    /\ status' = Append(status, "sent")
    /\ awaited' = Append(awaited, op)
    /\ pc' = waiting
    /\ UNCHANGED <<client, stream, exc, resp, out, store, otherWrites, proc>>

\* The await resumes: with the response (then the two prints follow), or
\* with an exception, which nothing in go() catches: it leaves through the
\* scopes that are open (unwind).  A response the service produced can still
\* be lost on the way (connection reset, read timeout of the transport), and
\* a request may fail before it reaches the service.
Return(op, waiting, next, unwind, label) ==
    /\ pc = waiting
    /\ Len(calls) > 0
    /\ calls[Len(calls)].op = op
    /\ \/ /\ status[Len(calls)] = "applied"
          /\ status' = [status EXCEPT ![Len(calls)] = "ok"]
          /\ resp' = op
          /\ out' = out \o <<label, op>>
          /\ pc' = next
          /\ exc' = exc
       \/ /\ status[Len(calls)] \in {"sent", "applied", "rejected"}
          /\ status' = [status EXCEPT ![Len(calls)] = "failed"]
          /\ exc' = TRUE
          /\ pc' = unwind
          /\ UNCHANGED <<resp, out>>
    /\ UNCHANGED <<client, stream, calls, awaited, store, otherWrites, proc>>

\* Variant: the failure of PutObject is caught and go() carries on.
PutObjectReturnCaught ==
    /\ pc = "await_put"
    /\ \/ /\ status[Len(calls)] = "applied"
          /\ status' = [status EXCEPT ![Len(calls)] = "ok"]
          /\ resp' = "PutObject"
          /\ out' = out \o <<"PUT OBJECT RESPONSE:", "PutObject">>
       \/ /\ status[Len(calls)] \in {"sent", "applied", "rejected"}
          /\ status' = [status EXCEPT ![Len(calls)] = "failed"]
          /\ UNCHANGED <<resp, out>>
    /\ pc' = "acl"
    /\ UNCHANGED <<client, stream, exc, calls, awaited, store, otherWrites, proc>>

\* Line 25.
PutObjectCall == Call("PutObject", "put", "await_put")
\* Lines 25-27.
PutObjectReturn ==
    Return("PutObject", "await_put", "acl", "exit_client", "PUT OBJECT RESPONSE:")

\* Variant: GetObjectAcl is issued while PutObject is still suspended.
GetObjectAclCallEarly == Call("GetObjectAcl", "await_put", "await_acl")

\* Line 30.
GetObjectAclCall == Call("GetObjectAcl", "acl", "await_acl")
\* Variant: a failed GetObjectAcl is retried.
GetObjectAclReturnRetry ==
    Return("GetObjectAcl", "await_acl", "get", "acl", "GET OBJECT ACL RESPONSE:")

\* Lines 30-32.
GetObjectAclReturn ==
    Return("GetObjectAcl", "await_acl", "get", "exit_client", "GET OBJECT ACL RESPONSE:")

\* Variant: a failed GetObject is followed by a clean-up DeleteObject before
\* the exception leaves go().
GetObjectReturnCleanup ==
    /\ pc = "await_get"
    /\ \/ /\ status[Len(calls)] = "applied"
          /\ status' = [status EXCEPT ![Len(calls)] = "ok"]
          /\ resp' = "GetObject"
          /\ pc' = "enter_stream"
          /\ exc' = exc
       \/ /\ status[Len(calls)] \in {"sent", "applied", "rejected"}
          /\ status' = [status EXCEPT ![Len(calls)] = "failed"]
          /\ exc' = TRUE
          /\ pc' = "delete"
          /\ resp' = resp
    /\ UNCHANGED <<client, stream, calls, awaited, out, store, otherWrites, proc>>

\* Line 34.
GetObjectCall == Call("GetObject", "get", "await_get")
\* Line 34: the response is bound to resp; nothing is printed yet.
GetObjectReturn ==
    /\ pc = "await_get"
    /\ \/ /\ status[Len(calls)] = "applied"
          /\ status' = [status EXCEPT ![Len(calls)] = "ok"]
          /\ resp' = "GetObject"
          /\ pc' = "enter_stream"
          /\ exc' = exc
       \/ /\ status[Len(calls)] \in {"sent", "applied", "rejected"}
          /\ status' = [status EXCEPT ![Len(calls)] = "failed"]
          /\ exc' = TRUE
          /\ pc' = "exit_client"
          /\ resp' = resp
    /\ UNCHANGED <<client, stream, calls, awaited, out, store, otherWrites, proc>>

\* Line 35: __aenter__ of the body scope.
EnterStream ==
    /\ pc = "enter_stream"
    /\ awaited' = Append(awaited, "aenter_stream")
    /\ \/ /\ stream' = "open"
          /\ pc' = "read"
          /\ exc' = exc
       \/ /\ stream' = stream
          /\ pc' = "exit_client"
          /\ exc' = TRUE
    /\ UNCHANGED <<client, calls, status, resp, out, store, otherWrites, proc>>

\* Variant: the read is started but not awaited.
ReadCallNotAwaited ==
    /\ pc = "read"
    /\ calls' = Append(calls, Request("Read"))
    /\ status' = Append(status, "applied")
    /\ pc' = "await_read"
    /\ UNCHANGED <<client, stream, exc, awaited, resp, out, store, otherWrites, proc>>

\* Line 36: `await stream.read()`.
ReadCall == Call("Read", "read", "await_read")
\* Variant: the read is given up when no answer arrives (a timeout).
ReadReturnTimeout ==
    /\ pc = "await_read"
    /\ \/ /\ status[Len(calls)] = "applied"
          /\ status' = [status EXCEPT ![Len(calls)] = "ok"]
          /\ out' = out \o <<"GET OBJECT RESPONSE:", resp>>
          /\ exc' = exc
       \/ /\ status[Len(calls)] \in {"sent", "applied", "rejected", "hung"}
          /\ status' = [status EXCEPT ![Len(calls)] = "failed"]
          /\ exc' = TRUE
          /\ out' = out
    /\ pc' = "exit_stream"
    /\ UNCHANGED <<client, stream, calls, awaited, resp, store, otherWrites, proc>>

\* Lines 36-38: the read resumes; the prints are inside the body scope.
ReadReturn ==
    /\ pc = "await_read"
    /\ \/ /\ status[Len(calls)] = "applied"
          /\ status' = [status EXCEPT ![Len(calls)] = "ok"]
          /\ out' = out \o <<"GET OBJECT RESPONSE:", resp>>
          /\ exc' = exc
       \/ /\ status[Len(calls)] \in {"sent", "applied", "rejected"}
          /\ status' = [status EXCEPT ![Len(calls)] = "failed"]
          /\ exc' = TRUE
          /\ out' = out
    /\ pc' = "exit_stream"
    /\ UNCHANGED <<client, stream, calls, awaited, resp, store, otherWrites, proc>>

\* Variant: the body is a plain variable, never released.
ExitStreamNoRelease ==
    /\ pc = "exit_stream"
    /\ pc' = IF exc THEN "exit_client" ELSE "delete"
    /\ UNCHANGED <<client, stream, exc, calls, status, awaited, resp, out, store,
                   otherWrites, proc>>

\* Lines 35-38: __aexit__ of the body scope, on the normal path and on the
\* exceptional one.
ExitStream ==
    /\ pc = "exit_stream"
    /\ stream' = "released"
    /\ awaited' = Append(awaited, "aexit_stream")
    /\ pc' = IF exc THEN "exit_client" ELSE "delete"
    /\ UNCHANGED <<client, exc, calls, status, resp, out, store, otherWrites, proc>>

\* Line 45.
DeleteObjectCall == Call("DeleteObject", "delete", "await_delete")
\* Lines 45-47.
DeleteObjectReturn ==
    Return("DeleteObject", "await_delete", "exit_client", "exit_client",
           "DELETE OBJECT RESPONSE:")

\* Variant: the client is released on the normal path only.
ExitClientNormalOnly ==
    /\ pc = "exit_client"
    /\ client' = IF exc THEN client ELSE "released"
    /\ awaited' = Append(awaited, "aexit_client")
    /\ pc' = IF exc THEN "failed" ELSE "done"
    /\ UNCHANGED <<stream, exc, calls, status, resp, out, store, otherWrites, proc>>

\* Lines 16-47: __aexit__ of the client scope; go() then returns or raises.
ExitClient ==
    /\ pc = "exit_client"
    /\ client' = "released"
    /\ awaited' = Append(awaited, "aexit_client")
    /\ pc' = IF exc THEN "failed" ELSE "done"
    /\ UNCHANGED <<stream, exc, calls, status, resp, out, store, otherWrites, proc>>

\* Lines 50-51: asyncio.run returns when go() returned and re-raises what
\* go() raised; the script has nothing after it.
AsyncioRun ==
    /\ proc = "running"
    /\ pc \in {"done", "failed"}
    /\ proc' = IF pc = "done" THEN "exit_ok" ELSE "exit_error"
    /\ UNCHANGED <<pc, client, stream, exc, calls, status, awaited, resp, out,
                   store, otherWrites>>

Go ==
    \/ CreateClient
    \/ PutObjectCall \/ PutObjectReturn
    \/ GetObjectAclCall \/ GetObjectAclReturn
    \/ GetObjectCall \/ GetObjectReturn
    \/ EnterStream
    \/ ReadCall \/ ReadReturn
    \/ ExitStream
    \/ DeleteObjectCall \/ DeleteObjectReturn
    \/ ExitClient
    \/ AsyncioRun

---------------------------------------------------------------------------
\* The service at endpoint_url and the connection to it.

\* The effect of a request the service accepts.
Apply(req, s) ==
    CASE req.op = "PutObject" -> s \cup {<<req.Bucket, req.Key>>}
      [] req.op = "DeleteObject" -> s \ {<<req.Bucket, req.Key>>}
      [] OTHER -> s

\* Whether the service can answer the request with success: reads need the
\* object to exist.
Accepts(req, s) ==
    req.op \in {"GetObjectAcl", "GetObject", "Read"} => <<req.Bucket, req.Key>> \in s

\* The service handles call i: it applies it, or refuses it (credentials,
\* missing key, internal error) and leaves the store alone.
ServiceHandle(i) ==
    /\ status[i] = "sent"
    /\ \/ /\ Accepts(calls[i], store)
          /\ store' = Apply(calls[i], store)
          /\ status' = [status EXCEPT ![i] = "applied"]
       \/ /\ store' = store
          /\ status' = [status EXCEPT ![i] = "rejected"]
    /\ UNCHANGED <<pc, client, stream, exc, calls, awaited, resp, out, otherWrites, proc>>

\* Call i never gets an answer: neither a response nor an error.
Hang(i) ==
    /\ status[i] \in {"sent", "applied", "rejected"}
    /\ status' = [status EXCEPT ![i] = "hung"]
    /\ UNCHANGED <<pc, client, stream, exc, calls, awaited, resp, out, store,
                   otherWrites, proc>>

\* Another client of the service writes or deletes an object of the bucket.
OtherPut(k) ==
    /\ otherWrites < MaxOtherWrites
    /\ store' = store \cup {<<bucket, k>>}
    /\ otherWrites' = otherWrites + 1
    /\ UNCHANGED <<pc, client, stream, exc, calls, status, awaited, resp, out, proc>>

OtherDelete(k) ==
    /\ otherWrites < MaxOtherWrites
    /\ store' = store \ {<<bucket, k>>}
    /\ otherWrites' = otherWrites + 1
    /\ UNCHANGED <<pc, client, stream, exc, calls, status, awaited, resp, out, proc>>

Service == \E i \in 1..Len(calls) : ServiceHandle(i)
Lost == \E i \in 1..Len(calls) : Hang(i)
Others == \E k \in Keys : OtherPut(k) \/ OtherDelete(k)

Next == Go \/ Service \/ Lost \/ Others

Spec == Init /\ [][Next]_vars

\* One event loop runs go() whenever it can run; the service answers what it
\* was sent unless the call hangs.
LiveSpec == Spec /\ WF_vars(Go) /\ WF_vars(Service)

---------------------------------------------------------------------------
\* Vocabulary of the properties.

Object == <<bucket, key>>
Terminated == pc \in {"done", "failed"}
Hung == \E i \in 1..Len(calls) : status[i] = "hung"
Failed == \E i \in 1..Len(calls) : status[i] = "failed"
Issued(op) == \E i \in 1..Len(calls) : calls[i].op = op
Succeeded(op) == \E i \in 1..Len(calls) : calls[i].op = op /\ status[i] = "ok"
Returned(op) == \E i \in 1..Len(calls) : calls[i].op = op /\ status[i] \in {"ok", "failed"}
Times(op) == Cardinality({i \in 1..Len(calls) : calls[i].op = op})
OpOf(req) == req.op
IsRemoteOp(o) == o \in {RemoteOps[n] : n \in 1..Len(RemoteOps)}
IsAwaitExpr(a) == a \notin {"aenter_client", "aexit_client", "aenter_stream", "aexit_stream"}
\* The S3 operations issued so far, in order of issue.
IssuedOps == SelectSeq([i \in 1..Len(calls) |-> OpOf(calls[i])], IsRemoteOp)
\* The `await` expressions go() has suspended on (the implicit awaits of the
\* two `async with` statements left out).
ExplicitAwaits == SelectSeq(awaited, IsAwaitExpr)
IsPrefix(s, t) == Len(s) <= Len(t) /\ \A i \in 1..Len(s) : s[i] = t[i]

\* C1: the S3 operations are issued in the order PutObject, GetObjectAcl,
\* GetObject, DeleteObject; one is issued only after every earlier call has
\* returned its response; at most one request is outstanding at any time.
C1_StrictSequence ==
    /\ IsPrefix(IssuedOps, RemoteOps)
    /\ \A i \in 1..Len(calls) : i < Len(calls) => status[i] = "ok"
    /\ Cardinality(Outstanding) <= 1
C1_Witness ==
    /\ IssuedOps = RemoteOps
    /\ Outstanding = {Len(calls)}

\* C2: a failed operation (PutObject, GetObjectAcl, GetObject, the body read
\* or DeleteObject) is not caught: it is the last operation go() ever issues,
\* go() is leaving with the exception and never ends normally, and the
\* process terminates with the error.
C2_FailurePropagates ==
    /\ [](\A i \in 1..Len(calls) : status[i] = "failed" =>
            /\ i = Len(calls)
            /\ exc
            /\ pc \in {"exit_stream", "exit_client", "failed"}
            /\ proc # "exit_ok")
    /\ (Failed ~> (pc = "failed" /\ proc = "exit_error"))
C2_Witness ==
    /\ proc = "exit_error"
    /\ Succeeded("PutObject")
    /\ Issued("GetObjectAcl")
    /\ status[Len(calls)] = "failed"
    /\ calls[Len(calls)].op = "GetObjectAcl"

\* C3: no operation is retried: each of PutObject, GetObjectAcl, GetObject
\* and DeleteObject is issued at most once, whether calls succeed or fail.
C3_NoRetry == \A n \in 1..Len(RemoteOps) : Times(RemoteOps[n]) <= 1
C3_Witness ==
    /\ Terminated
    /\ Failed
    /\ Times("PutObject") = 1
    /\ Times("DeleteObject") = 1

\* C4: when go() has ended, normally or by a failure at any point, the client
\* that was created has been released and a body that was entered has been
\* released; neither is still held.
C4_ScopesReleased ==
    Terminated =>
        /\ client # "open"
        /\ stream # "open"
        /\ (Len(calls) > 0 => client = "released")
        /\ (Issued("Read") => stream = "released")
C4_Witness ==
    /\ pc = "failed"
    /\ Issued("Read")
    /\ ~Succeeded("Read")
    /\ client = "released"
    /\ stream = "released"

\* C5 as stated: a complete execution of go() suspends on exactly four
\* awaited operations, the four S3 calls, and on no other.
C5_FourAwaits == pc = "done" => ExplicitAwaits = RemoteOps
\* C5 amended: a complete execution of go() suspends on exactly five awaited
\* calls, in this order: PutObject, GetObjectAcl, GetObject, the read of the
\* body (stream.read()) and DeleteObject.
C5_FiveAwaits ==
    pc = "done" =>
        ExplicitAwaits = <<"PutObject", "GetObjectAcl", "GetObject", "Read", "DeleteObject">>
C5_Witness == pc = "done" /\ proc = "exit_ok" /\ Len(awaited) = 9

\* C6: go() has no timeout of its own: if no issued operation hangs, go()
\* eventually terminates with the client released; while an operation hangs,
\* go() stays suspended on it and issues nothing more.
C6_NoTimeout ==
    /\ ([]~Hung) => <>(Terminated /\ client # "open" /\ (Len(calls) > 0 => client = "released"))
    /\ [][Hung => (Hung' /\ pc' = pc /\ calls' = calls /\ client' = client)]_vars
C6_Witness ==
    /\ Hung
    /\ calls[Len(calls)].op = "Read"
    /\ pc = "await_read"
    /\ otherWrites > 0

\* C7: the body is read only while its scope is open; the read has returned
\* when the scope is left; the body is released before DeleteObject is issued
\* and before the client is released.
C7_BodyScope ==
    /\ (Issued("Read") /\ ~Returned("Read")) => stream = "open"
    /\ stream = "released" => Returned("Read")
    /\ Issued("DeleteObject") => stream = "released"
    /\ client = "released" => stream # "open"
C7_Witness ==
    /\ client = "released"
    /\ stream = "released"
    /\ Succeeded("Read")
    /\ Succeeded("DeleteObject")

\* C8: all operations address the same bucket and key; when no other party
\* writes the bucket, the object exists from the PutObject response until
\* DeleteObject is issued, and does not exist once go() has run to its end
\* with every operation successful.
C8_ObjectLifetime ==
    /\ \A i, j \in 1..Len(calls) :
          calls[i].Bucket = calls[j].Bucket /\ calls[i].Key = calls[j].Key
    /\ (otherWrites = 0 /\ Succeeded("PutObject") /\ ~Issued("DeleteObject"))
          => Object \in store
    /\ (otherWrites = 0 /\ pc = "done") => Object \notin store
C8_Witness ==
    /\ otherWrites = 0
    /\ pc = "done"
    /\ Succeeded("GetObjectAcl")
    /\ Succeeded("GetObject")
    /\ Object \notin store

\* A later operation than PutObject failed, after PutObject succeeded, and
\* the process has terminated.
FailedAfterPut ==
    /\ proc = "exit_error"
    /\ Succeeded("PutObject")
    /\ Failed

\* C9 as stated (no other party writing the bucket): when PutObject succeeded
\* and a later operation failed, DeleteObject has not succeeded when the
\* process terminates, and the uploaded object is left in the bucket.
C9_ObjectLeft ==
    (FailedAfterPut /\ otherWrites = 0) =>
        /\ ~Succeeded("DeleteObject")
        /\ Object \in store
\* C9 amended: DeleteObject has not succeeded when the process terminates;
\* the uploaded object is left in the bucket when the failed operation is one
\* before DeleteObject and no other party writes the bucket.
C9_NoCleanup ==
    FailedAfterPut =>
        /\ ~Succeeded("DeleteObject")
        /\ (otherWrites = 0 /\ ~Issued("DeleteObject")) => Object \in store
C9_Witness ==
    /\ FailedAfterPut
    /\ otherWrites = 0
    /\ Succeeded("GetObjectAcl")
    /\ ~Succeeded("GetObject")
    /\ Object \in store

====
